---------------------------- MODULE Spec2Model ----------------------------
(***************************************************************************)
(* pcurses: the modal input controller (Program) and the filter engine     *)
(* (Filter).  Texts are sequences of one-character strings, so that        *)
(* parsing, case folding and matching are computed and not assumed.        *)
(***************************************************************************)
EXTENDS Integers, Sequences, FiniteSets, TLC

VARIABLES st, ch, tty, calls

vars == <<st, ch, tty, calls>>

(***************************************************************************)
(* Bounds of the model.                                                    *)
(***************************************************************************)
\* history entries (over the six histories) a run may record after start-up
MaxCommits == 3
\* longest string handed to setattrs in SpecAttrs
MaxStrLen == 3
\* nested activations of execmacro the runs of SpecCycle follow
MaxDepth == 3
\* rows the list pane can show (terminal dependent), used by page up/down
PageRows == 2
\* terminal sizes above the required minimum (size 0 stands for those below it)
MaxSize == 2

(***************************************************************************)
(* Characters and strings.                                                 *)
(***************************************************************************)
LowerSeq == <<"a","b","c","d","e","f","g","h","i","j","k","l","m",
              "n","o","p","q","r","s","t","u","v","w","x","y","z">>
UpperSeq == <<"A","B","C","D","E","F","G","H","I","J","K","L","M",
              "N","O","P","Q","R","S","T","U","V","W","X","Y","Z">>
DigitSeq == <<"0","1","2","3","4","5","6","7","8","9">>

Range(s) == {s[i] : i \in 1..Len(s)}
IndexOf(s, c) == CHOOSE i \in 1..Len(s) : s[i] = c

IsLower(c) == c \in Range(LowerSeq)
IsUpper(c) == c \in Range(UpperSeq)
IsDigit(c) == c \in Range(DigitSeq)
IsAlpha(c) == IsLower(c) \/ IsUpper(c)
IsAlnum(c) == IsAlpha(c) \/ IsDigit(c)

\* the character's code (ASCII), which std::string's operator< compares
Code(c) ==
    IF IsLower(c) THEN 96 + IndexOf(LowerSeq, c)
    ELSE IF IsUpper(c) THEN 64 + IndexOf(UpperSeq, c)
    ELSE IF IsDigit(c) THEN 47 + IndexOf(DigitSeq, c)
    ELSE CASE c = " " -> 32 [] c = "!" -> 33 [] c = "," -> 44 [] c = "." -> 46
           [] c = ":" -> 58 [] c = "?" -> 63 [] c = "@" -> 64 [] c = "[" -> 91
           [] c = "/" -> 47 [] c = ";" -> 59 [] c = "%" -> 37
           [] OTHER -> 127

\* boost::to_lower on one character
ToLowerChar(c) == IF IsUpper(c) THEN LowerSeq[IndexOf(UpperSeq, c)] ELSE c
RECURSIVE ToLower(_)
ToLower(s) == IF s = <<>> THEN <<>> ELSE <<ToLowerChar(Head(s))>> \o ToLower(Tail(s))

\* std::string::operator< : lexicographic on character codes
StrLess(a, b) ==
    \E i \in 1..Len(b) :
        /\ i <= Len(a) + 1
        /\ \A j \in 1..(i-1) : a[j] = b[j]
        /\ (i = Len(a) + 1 \/ Code(a[i]) < Code(b[i]))

\* std::string::find(needle) != npos
Contains(hay, needle) ==
    \E k \in 0..(Len(hay) - Len(needle)) :
        \A j \in 1..Len(needle) : hay[k + j] = needle[j]

Drop(s, n) == SubSeq(s, n + 1, Len(s))
Prefixes(s) == {SubSeq(s, 1, n) : n \in 0..Len(s)}

(***************************************************************************)
(* Attribute system (attributeinfo is not among the sources; the letters   *)
(* for name and description are those of the 'n' and 'd' filter keys).     *)
(***************************************************************************)
A_NAME == "A_NAME"
A_DESC == "A_DESC"
A_INSTALLSTATE == "A_INSTALLSTATE"
A_NONE == "A_NONE"
Attributes == {A_NAME, A_DESC, A_INSTALLSTATE}

chartoattr(c) ==
    CASE c = "n" -> A_NAME
      [] c = "d" -> A_DESC
      [] c = "i" -> A_INSTALLSTATE
      [] OTHER -> A_NONE

attrtochar(a) ==
    CASE a = A_NAME -> "n"
      [] a = A_DESC -> "d"
      [] a = A_INSTALLSTATE -> "i"
      [] OTHER -> "?"

\* Package::getattr, on a package record
getattr(pkg, a) ==
    CASE a = A_NAME -> pkg.name
      [] a = A_DESC -> pkg.desc
      [] a = A_INSTALLSTATE -> pkg.state
      [] OTHER -> <<>>

(***************************************************************************)
(* Filter engine.                                                          *)
(***************************************************************************)
\* Filter::clearattrs: the mutant keeps the old list and appends the defaults
clearattrs_noclear(al) == al \o <<A_NAME, A_DESC>>

clearattrs(al) == <<A_NAME, A_DESC>>

RECURSIVE setattrs_from(_, _, _)
setattrs_from(s, i, al) ==
    IF i > Len(s) THEN al
    ELSE LET attr == chartoattr(s[i]) IN
         IF attr = A_NONE THEN setattrs_from(s, i + 1, al)
         ELSE IF attr \in Range(al) THEN setattrs_from(s, i + 1, al)
         ELSE setattrs_from(s, i + 1, Append(al, attr))

\* Filter::setattrs: the mutant omits the duplicate test
RECURSIVE setattrs_dups_from(_, _, _)
setattrs_dups_from(s, i, al) ==
    IF i > Len(s) THEN al
    ELSE LET attr == chartoattr(s[i]) IN
         IF attr = A_NONE THEN setattrs_dups_from(s, i + 1, al)
         ELSE setattrs_dups_from(s, i + 1, Append(al, attr))

setattrs_dups(s) == setattrs_dups_from(s, 1, <<>>)

setattrs(s) == setattrs_from(s, 1, <<>>)

\* the loop of Filter::matches: some active attribute contains the needle
found_sub(pkg, needle, al) ==
    \E i \in 1..Len(al) : Contains(ToLower(getattr(pkg, al[i])), ToLower(needle))

\* Filter::matches returns !found
matches(pkg, needle, al) == ~found_sub(pkg, needle, al)

\* Filter::notmatches: the complementary predicate
notmatches(pkg, needle, al) == ~matches(pkg, needle, al)

\* sregex::compile(p, icase): an unclosed bracket expression is a regex_error
RegexCompiles(p) ==
    \A i \in 1..Len(p) : p[i] = "[" => \E j \in (i+1)..Len(p) : p[j] = "]"

\* one pattern position against one character, case-insensitively
RegexCharMatch(pc, c) == pc = "." \/ ToLowerChar(pc) = ToLowerChar(c)

\* regex_search for the patterns of the model: literals and '.'
regex_search(text, p) ==
    \E k \in 0..(Len(text) - Len(p)) :
        \A j \in 1..Len(p) : RegexCharMatch(p[j], text[k + j])

found_re(pkg, needle, al) ==
    \E i \in 1..Len(al) : regex_search(getattr(pkg, al[i]), needle)

\* Filter::matchesre returns !found
matchesre(pkg, needle, al) == ~found_re(pkg, needle, al)

\* Filter::notmatchesre: the complementary predicate
notmatchesre(pkg, needle, al) == ~matchesre(pkg, needle, al)

\* Filter::cmp compares the names
cmp(lhs, rhs) == StrLess(lhs.name, rhs.name)


(***************************************************************************)
(* Controller state.  st is the Program object together with the static    *)
(* Filter::attrlist, the panes' focus indices and the collaborators' data. *)
(* A Package pointer is [gen, idx]: the idx-th package of the gen-th load.  *)
(***************************************************************************)
OP_FILTER == "OP_FILTER"
OP_SORT == "OP_SORT"
OP_SEARCH == "OP_SEARCH"
OP_COLORCODE == "OP_COLORCODE"
OP_EXEC == "OP_EXEC"
OP_MACRO == "OP_MACRO"
OP_NONE == "OP_NONE"
Ops == {OP_FILTER, OP_SORT, OP_SEARCH, OP_COLORCODE, OP_EXEC, OP_MACRO}

MODE_STANDARD == "MODE_STANDARD"
MODE_INPUT == "MODE_INPUT"
MODE_HELP == "MODE_HELP"

LIST_PANE == "list_pane"
QUEUE_PANE == "queue_pane"

Min(a, b) == IF a < b THEN a ELSE b
Max(a, b) == IF a > b THEN a ELSE b

Ptr(g, i) == [gen |-> g, idx |-> i]
\* the package a pointer of the current load refers to
Deref(s, p) == s.packages[p.idx]
\* the pointers held by Program::packages
RECURSIVE PtrsUpTo(_, _)
PtrsUpTo(g, n) == IF n = 0 THEN <<>> ELSE Append(PtrsUpTo(g, n - 1), Ptr(g, n))
PackagePtrs(s) == PtrsUpTo(s.gen, Len(s.packages))

RemoveAt(q, i) == SubSeq(q, 1, i - 1) \o SubSeq(q, i + 1, Len(q))

\* std::sort with Filter::cmp; names are unique within a load (loadpkgs)
RECURSIVE SortPtrs(_, _)
SortPtrs(s, q) ==
    IF q = <<>> THEN <<>>
    ELSE LET m == CHOOSE i \in 1..Len(q) :
                      \A j \in 1..Len(q) : ~cmp(Deref(s, q[j]), Deref(s, q[i]))
         IN <<q[m]>> \o SortPtrs(s, RemoveAt(q, m))

(***************************************************************************)
(* History (not among the sources): entries and a browse cursor, where     *)
(* pos = Len(items) + 1 is past-the-end.                                   *)
(***************************************************************************)
EmptyHistory == [items |-> <<>>, pos |-> 1]
HisAdd(h, x) == [h EXCEPT !.items = Append(@, x)]
HisReset(h) == [h EXCEPT !.pos = Len(h.items) + 1]
HisEmpty(h) == h.items = <<>>
HisMoveBack(h) == [h EXCEPT !.pos = Max(1, Min(@, Len(h.items) + 1) - 1)]
HisMoveForward(h) == [h EXCEPT !.pos = Min(@ + 1, Len(h.items) + 1)]
HisCurrent(h) == IF h.pos \in 1..Len(h.items) THEN h.items[h.pos] ELSE <<>>

\* Program::gethis selects the history of the operation
gethis(s, o) == s.his[o]
AddHis(s, o, x) == [s EXCEPT !.his[o] = HisAdd(@, x)]

(***************************************************************************)
(* CursesListBox (not among the sources): a focus index clamped to the     *)
(* backing sequence, 0 when it is empty.                                   *)
(***************************************************************************)
ClampIndex(i, n) == IF n = 0 THEN 0 ELSE Max(0, Min(i, n - 1))

list_moveabs(s, i) == [s EXCEPT !.listfocus = ClampIndex(i, Len(s.filteredpackages))]
list_move(s, d) == list_moveabs(s, s.listfocus + d)
queue_moveabs(s, i) == [s EXCEPT !.queuefocus = ClampIndex(i, Len(s.opqueue))]
queue_move(s, d) == queue_moveabs(s, s.queuefocus + d)
queue_movetoend(s) == queue_moveabs(s, Len(s.opqueue) - 1)
queue_removeselected(s) ==
    IF s.opqueue = <<>> THEN s
    ELSE LET q == RemoveAt(s.opqueue, s.queuefocus + 1)
         IN [s EXCEPT !.opqueue = q, !.queuefocus = ClampIndex(@, Len(q))]

pane_moveabs(s, i) == IF s.focused_pane = LIST_PANE THEN list_moveabs(s, i) ELSE queue_moveabs(s, i)
pane_move(s, d) == IF s.focused_pane = LIST_PANE THEN list_move(s, d) ELSE queue_move(s, d)
pane_movetoend(s) ==
    IF s.focused_pane = LIST_PANE THEN list_moveabs(s, Len(s.filteredpackages) - 1)
    ELSE queue_movetoend(s)

(***************************************************************************)
(* Program: small helpers.                                                 *)
(***************************************************************************)
optostr(o) ==
    CASE o = OP_FILTER -> <<"/">>
      [] o = OP_SORT -> <<".">>
      [] o = OP_SEARCH -> <<"?">>
      [] o = OP_COLORCODE -> <<";">>
      [] o = OP_EXEC -> <<"!">>
      [] o = OP_MACRO -> <<"@">>
      [] OTHER -> <<>>

strtoopt(str) ==
    IF \E o \in Ops : optostr(o) = str
    THEN CHOOSE o \in Ops : optostr(o) = str
    ELSE OP_NONE

\* Program::setfocus: the mutant focuses the queue pane even when it is empty
setfocus_any(s, frame) == [s EXCEPT !.focused_pane = frame]

setfocus(s, frame) ==
    IF s.opqueue = <<>> /\ frame = QUEUE_PANE
    THEN [s EXCEPT !.focused_pane = LIST_PANE]
    ELSE [s EXCEPT !.focused_pane = frame]

\* Program::clearfilter: the mutant appends the catalog to the view
clearfilter_append(s) ==
    list_moveabs([s EXCEPT !.filteredpackages = SortPtrs(s, @ \o PackagePtrs(s)),
                           !.searchphrases = <<>>], 0)

clearfilter(s) ==
    list_moveabs([s EXCEPT !.filteredpackages = SortPtrs(s, PackagePtrs(s)),
                           !.searchphrases = <<>>], 0)

\* the first character of str that maps to an attribute (sort, colorcode)
RECURSIVE FirstAttr(_, _)
FirstAttr(str, i) ==
    IF i > Len(str) THEN A_NONE
    ELSE IF chartoattr(str[i]) # A_NONE THEN chartoattr(str[i])
    ELSE FirstAttr(str, i + 1)


(***************************************************************************)
(* Parsing of the committed text.                                          *)
(***************************************************************************)
\* length of the longest prefix of letters ([A-Za-z]*, greedy)
RECURSIVE LetterPrefixLen(_)
LetterPrefixLen(str) ==
    IF str # <<>> /\ IsAlpha(Head(str)) THEN 1 + LetterPrefixLen(Tail(str)) ELSE 0

\* reprefix of filterpackages: ^(([A-Za-zq]*)([!]?):)?(.*)
ParseFilter(str) ==
    LET k == LetterPrefixLen(str) IN
    IF k + 1 <= Len(str) /\ str[k + 1] = ":"
    THEN [fieldlist |-> SubSeq(str, 1, k), negate |-> <<>>, searchphrase |-> Drop(str, k + 1)]
    ELSE IF k + 2 <= Len(str) /\ str[k + 1] = "!" /\ str[k + 2] = ":"
    THEN [fieldlist |-> SubSeq(str, 1, k), negate |-> <<"!">>, searchphrase |-> Drop(str, k + 2)]
    ELSE [fieldlist |-> <<>>, negate |-> <<>>, searchphrase |-> str]

\* reprefix of searchpackages: ^([A-Za-z]*):(.*)
ParseSearch(str) ==
    LET k == LetterPrefixLen(str) IN
    IF k + 1 <= Len(str) /\ str[k + 1] = ":"
    THEN [matched |-> TRUE, fieldlist |-> SubSeq(str, 1, k), searchphrase |-> Drop(str, k + 1)]
    ELSE [matched |-> FALSE, fieldlist |-> <<>>, searchphrase |-> str]

\* resimple: the phrase is alphanumeric only (the fast path of filterpackages).
\* For every phrase without pattern characters the two paths remove the same
\* entries, so the outcome does not rest on where exactly this line is drawn.
IsSimple(phrase) == phrase # <<>> /\ \A i \in 1..Len(phrase) : IsAlnum(phrase[i])

\* std::find_if(it, end, fn): 1-based position, Len(q) + 1 for end
FindIf(q, it, fn) ==
    IF \E i \in it..Len(q) : fn[q[i]]
    THEN CHOOSE i \in it..Len(q) : fn[q[i]] /\ \A j \in it..(i - 1) : ~fn[q[j]]
    ELSE Len(q) + 1

\* while (it != end) { erase(it); it = find_if(it, end, fn); }
\* (after vector::erase the iterator is the position of the next element)
RECURSIVE EraseLoop(_, _, _)
EraseLoop(q, it, fn) ==
    IF it > Len(q) THEN q
    ELSE LET q2 == RemoveAt(q, it) IN EraseLoop(q2, FindIf(q2, it, fn), fn)

\* boost::split(strs, str, is_any_of(","))
RECURSIVE SplitComma(_, _)
SplitComma(str, cur) ==
    IF str = <<>> THEN <<cur>>
    ELSE IF Head(str) = "," THEN <<cur>> \o SplitComma(Tail(str), <<>>)
    ELSE SplitComma(Tail(str), Append(cur, Head(str)))

\* boost::trim
RECURSIVE TrimLeft(_)
TrimLeft(str) == IF str # <<>> /\ Head(str) = " " THEN TrimLeft(Tail(str)) ELSE str
RECURSIVE TrimRight(_)
TrimRight(str) ==
    IF str # <<>> /\ str[Len(str)] = " " THEN TrimRight(SubSeq(str, 1, Len(str) - 1)) ELSE str
Trim(str) == TrimRight(TrimLeft(str))

(***************************************************************************)
(* Program: the operation handlers.  s.last names the path the most recent *)
(* handler took.                                                           *)
(***************************************************************************)
\* the mutant hands find_if the predicate of the other negation sense
FilterFn_swapped(s, p) ==
    [ptr \in Range(s.filteredpackages) |->
        IF IsSimple(p.searchphrase)
        THEN IF p.negate # <<>>
             THEN notmatches(Deref(s, ptr), p.searchphrase, s.attrlist)
             ELSE matches(Deref(s, ptr), p.searchphrase, s.attrlist)
        ELSE IF p.negate # <<>>
             THEN notmatchesre(Deref(s, ptr), p.searchphrase, s.attrlist)
             ELSE matchesre(Deref(s, ptr), p.searchphrase, s.attrlist)]

\* the exclusion predicate filterpackages hands to find_if, tabulated on the view
FilterFn(s, p) ==
    [ptr \in Range(s.filteredpackages) |->
        IF IsSimple(p.searchphrase)
        THEN IF p.negate = <<>>
             THEN notmatches(Deref(s, ptr), p.searchphrase, s.attrlist)
             ELSE matches(Deref(s, ptr), p.searchphrase, s.attrlist)
        ELSE IF p.negate = <<>>
             THEN notmatchesre(Deref(s, ptr), p.searchphrase, s.attrlist)
             ELSE matchesre(Deref(s, ptr), p.searchphrase, s.attrlist)]

\* searchphrases += ", " (if non-empty); searchphrases += str
Describe(desc, str) == IF desc # <<>> THEN desc \o <<",", " ">> \o str ELSE str

\* Program::filterpackages: the mutant records the description before compiling
filterpackages_early(s, str) ==
    LET Erase(s3, p, fn) ==
            IF ~IsSimple(p.searchphrase) /\ ~RegexCompiles(p.searchphrase)
            THEN [s3 EXCEPT !.last = "filter:badre"]
            ELSE [s3 EXCEPT
                    !.filteredpackages = EraseLoop(@, FindIf(@, 1, fn), fn),
                    !.last = IF IsSimple(p.searchphrase) THEN "filter:sub" ELSE "filter:re"]
        Compile(s3, p) == Erase([s3 EXCEPT !.searchphrases = Describe(@, str)], p, FilterFn(s3, p))
        Select(s2, p) ==
            IF p.searchphrase = <<>> THEN [s2 EXCEPT !.last = "filter:empty"]
            ELSE Compile(IF p.fieldlist # <<>>
                         THEN [s2 EXCEPT !.attrlist = setattrs(p.fieldlist)]
                         ELSE s2, p)
    IN  Select([AddHis(s, OP_FILTER, str) EXCEPT !.attrlist = clearattrs(@)], ParseFilter(str))

\* Program::filterpackages: the mutant does not call clearattrs
filterpackages_keepattrs(s, str) ==
    LET Erase(s3, p, fn) ==
            IF ~IsSimple(p.searchphrase) /\ ~RegexCompiles(p.searchphrase)
            THEN [s3 EXCEPT !.last = "filter:badre"]
            ELSE [s3 EXCEPT
                    !.filteredpackages = EraseLoop(@, FindIf(@, 1, fn), fn),
                    !.searchphrases = Describe(@, str),
                    !.last = IF IsSimple(p.searchphrase) THEN "filter:sub" ELSE "filter:re"]
        Compile(s3, p) == Erase(s3, p, FilterFn(s3, p))
        Select(s2, p) ==
            IF p.searchphrase = <<>> THEN [s2 EXCEPT !.last = "filter:empty"]
            ELSE Compile(IF p.fieldlist # <<>>
                         THEN [s2 EXCEPT !.attrlist = setattrs(p.fieldlist)]
                         ELSE s2, p)
    IN  Select(AddHis(s, OP_FILTER, str), ParseFilter(str))

\* Program::filterpackages.  Erase: the try block once the predicate fn is chosen;
\* Compile: the choice of fn; Select: the early return and setattrs
filterpackages(s, str) ==
    LET Erase(s3, p, fn) ==
            IF ~IsSimple(p.searchphrase) /\ ~RegexCompiles(p.searchphrase)
            THEN [s3 EXCEPT !.last = "filter:badre"]
            ELSE [s3 EXCEPT
                    !.filteredpackages = EraseLoop(@, FindIf(@, 1, fn), fn),
                    !.searchphrases = Describe(@, str),
                    !.last = IF IsSimple(p.searchphrase) THEN "filter:sub" ELSE "filter:re"]
        Compile(s3, p) == Erase(s3, p, FilterFn(s3, p))
        Select(s2, p) ==
            IF p.searchphrase = <<>> THEN [s2 EXCEPT !.last = "filter:empty"]
            ELSE Compile(IF p.fieldlist # <<>>
                         THEN [s2 EXCEPT !.attrlist = setattrs(p.fieldlist)]
                         ELSE s2, p)
    IN  Select([AddHis(s, OP_FILTER, str) EXCEPT !.attrlist = clearattrs(@)], ParseFilter(str))

\* Program::sortpackages: the mutant records the text only once it has found
\* an attribute
sortpackages_lateadd(s, str) ==
    IF Len(str) < 1 THEN s
    ELSE LET attr == FirstAttr(str, 1)
         IN  IF attr = A_NONE THEN [s EXCEPT !.last = "sort:none"]
             ELSE [AddHis(s, OP_SORT, str) EXCEPT
                             !.sortedby = attr,
                             !.filteredpackages = SortPtrs(s, @),
                             !.last = "sort:done"]

\* Program::sortpackages
sortpackages(s, str) ==
    IF Len(str) < 1 THEN s
    ELSE LET s1 == AddHis(s, OP_SORT, str)
             attr == FirstAttr(str, 1)
         IN  IF attr = A_NONE THEN [s1 EXCEPT !.last = "sort:none"]
             ELSE [s1 EXCEPT !.sortedby = attr,
                             !.filteredpackages = SortPtrs(s1, @),
                             !.last = "sort:done"]

\* Program::colorcodepackages
colorcodepackages(s, str) ==
    IF Len(str) < 1 THEN s
    ELSE LET s1 == AddHis(s, OP_COLORCODE, str)
             attr == FirstAttr(str, 1)
         IN  IF attr = A_NONE THEN [s1 EXCEPT !.last = "color:none"]
             ELSE [s1 EXCEPT !.attrlist = clearattrs(@),
                             !.coloredby = attr,
                             !.last = "color:done"]

\* the predicate searchpackages hands to find_if, tabulated on the view
SearchFn(s, phrase) ==
    [ptr \in Range(s.filteredpackages) |-> matches(Deref(s, ptr), phrase, s.attrlist)]

\* Program::searchpackages.  begin = focusedindex + 1 lies past end() when the
\* view is empty: the scan then reads outside the vector (s.oob).
\* Move: list_pane->moveabs unless it == end(); Wrap: the second find_if;
\* Scan: the first find_if; Select: the choice of the attributes
searchpackages(s, str) ==
    LET Move(s2, n, it1, it) ==
            IF it = n + 1 THEN [s2 EXCEPT !.last = "search:notfound"]
            ELSE [list_moveabs(s2, it - 1) EXCEPT
                     !.last = IF it1 = n + 1 THEN "search:wrapped" ELSE "search:found"]
        Wrap(s2, n, begin, fn, it1) ==
            Move(s2, n, it1,
                 IF it1 = n + 1 /\ begin # 0 THEN FindIf(s2.filteredpackages, 1, fn) ELSE it1)
        First(s2, n, begin, fn) ==
            Wrap(s2, n, begin, fn, FindIf(s2.filteredpackages, begin + 1, fn))
        Scan(s2, p, n, begin) ==
            IF p.searchphrase = <<>> THEN [s2 EXCEPT !.last = "search:empty"]
            ELSE IF begin > n THEN [s2 EXCEPT !.oob = TRUE, !.last = "search:oob"]
            ELSE First(s2, n, begin, SearchFn(s2, p.searchphrase))
        Begin(s2, p) == Scan(s2, p, Len(s2.filteredpackages), s2.listfocus + 1)
        Select(s1, p) ==
            Begin(IF p.matched
                  THEN [s1 EXCEPT !.attrlist = setattrs(p.fieldlist)]
                  ELSE [s1 EXCEPT !.attrlist = clearattrs(@)], p)
    IN  Select(AddHis(s, OP_SEARCH, str), ParseSearch(str))

\* Program::init_curses: new panes, focus on the list pane
init_curses(s) ==
    [setfocus(s, LIST_PANE) EXCEPT !.listfocus = 0, !.queuefocus = 0]

\* Program::execmd (the command itself runs outside the program)
execmd(s, str) ==
    [init_curses(AddHis(s, OP_EXEC, str)) EXCEPT !.last = "exec"]

RECURSIVE exitinputmode(_, _)
RECURSIVE execparts(_, _, _)

\* Program::execmacro
execmacro(s, str) ==
    execparts([AddHis(s, OP_MACRO, str) EXCEPT !.last = "macro"], SplitComma(str, <<>>), 1)

\* the loop of execmacro: the mutant goes on to the next part when a part is
\* not in the table
execparts_skip(s, strs, i) ==
    IF i > Len(strs) THEN s
    ELSE LET macropart == Trim(strs[i]) IN
         IF macropart \notin DOMAIN s.macros THEN execparts(s, strs, i + 1)
         ELSE LET cmd == s.macros[macropart]
                  o == strtoopt(SubSeq(cmd, 1, 1))
              IN  IF o = OP_NONE THEN [s EXCEPT !.last = "macro:noop"]
                  ELSE execparts(exitinputmode([s EXCEPT !.inputbuf = Drop(cmd, 1)], o),
                                 strs, i + 1)

\* the loop of execmacro: the mutant hands the handler the whole command,
\* selector included
execparts_wholecmd(s, strs, i) ==
    IF i > Len(strs) THEN s
    ELSE LET macropart == Trim(strs[i]) IN
         IF macropart \notin DOMAIN s.macros THEN [s EXCEPT !.last = "macro:unresolved"]
         ELSE LET cmd == s.macros[macropart]
                  o == strtoopt(SubSeq(cmd, 1, 1))
              IN  IF o = OP_NONE THEN [s EXCEPT !.last = "macro:noop"]
                  ELSE execparts(exitinputmode([s EXCEPT !.inputbuf = cmd], o),
                                 strs, i + 1)

\* the loop of execmacro over the parts, from part i
execparts(s, strs, i) ==
    IF i > Len(strs) THEN s
    ELSE LET macropart == Trim(strs[i]) IN
         IF macropart \notin DOMAIN s.macros THEN [s EXCEPT !.last = "macro:unresolved"]
         ELSE LET cmd == s.macros[macropart]
                  o == strtoopt(SubSeq(cmd, 1, 1))
              IN  IF o = OP_NONE THEN [s EXCEPT !.last = "macro:noop"]
                  ELSE execparts(exitinputmode([s EXCEPT !.inputbuf = Drop(cmd, 1)], o),
                                 strs, i + 1)

\* Program::exitinputmode: the mutant leaves the list focus where it was
exitinputmode_nomove(s, o) ==
    LET s1 == [s EXCEPT !.mode = MODE_STANDARD, !.op = OP_NONE] IN
    IF Len(s1.inputbuf) = 0 THEN s1
    ELSE CASE o = OP_FILTER -> filterpackages(s1, s1.inputbuf)
           [] o = OP_SORT -> sortpackages(s1, s1.inputbuf)
           [] o = OP_SEARCH -> searchpackages(s1, s1.inputbuf)
           [] o = OP_COLORCODE -> colorcodepackages(s1, s1.inputbuf)
           [] o = OP_EXEC -> execmd(s1, s1.inputbuf)
           [] o = OP_MACRO -> execmacro(s1, s1.inputbuf)
           [] OTHER -> s1

\* Program::exitinputmode: the mutant leaves the pending operation set
exitinputmode_keepop(s, o) ==
    LET s1 == [s EXCEPT !.mode = MODE_STANDARD] IN
    IF Len(s1.inputbuf) = 0 THEN s1
    ELSE CASE o = OP_FILTER -> list_moveabs(filterpackages(s1, s1.inputbuf), 0)
           [] o = OP_SORT -> sortpackages(s1, s1.inputbuf)
           [] o = OP_SEARCH -> searchpackages(s1, s1.inputbuf)
           [] o = OP_COLORCODE -> colorcodepackages(s1, s1.inputbuf)
           [] o = OP_EXEC -> execmd(s1, s1.inputbuf)
           [] o = OP_MACRO -> execmacro(s1, s1.inputbuf)
           [] OTHER -> s1

exitinputmode(s, o) ==
    LET s1 == [s EXCEPT !.mode = MODE_STANDARD, !.op = OP_NONE] IN
    IF Len(s1.inputbuf) = 0 THEN s1
    ELSE CASE o = OP_FILTER -> list_moveabs(filterpackages(s1, s1.inputbuf), 0)
           [] o = OP_SORT -> sortpackages(s1, s1.inputbuf)
           [] o = OP_SEARCH -> searchpackages(s1, s1.inputbuf)
           [] o = OP_COLORCODE -> colorcodepackages(s1, s1.inputbuf)
           [] o = OP_EXEC -> execmd(s1, s1.inputbuf)
           [] o = OP_MACRO -> execmacro(s1, s1.inputbuf)
           [] OTHER -> s1

\* Program::prepinputmode: the mutant leaves the browse cursor where it was
prepinputmode_noreset(s, o) ==
    [s EXCEPT !.mode = MODE_INPUT, !.inputbuf = <<>>, !.op = o]

prepinputmode(s, o) ==
    [s EXCEPT !.mode = MODE_INPUT, !.inputbuf = <<>>,
              !.his[o] = HisReset(@), !.op = o]


(***************************************************************************)
(* Program: start-up, reload and the main loop.                            *)
(***************************************************************************)
\* Program::deinit
deinit(s) ==
    [s EXCEPT !.filteredpackages = <<>>, !.packages = <<>>, !.opqueue = <<>>]

\* Program::loadpkgs: the catalog collaborator delivers s.db, sorted by name and
\* without repeated names; the configuration collaborator delivers s.macros
loadpkgs(s) ==
    LET s1 == [s EXCEPT !.packages = s.db, !.gen = @ + 1]
    IN  [s1 EXCEPT !.filteredpackages = PackagePtrs(s1)]

T_startup == <<"s","t","a","r","t","u","p">>

\* Program::init_misc
init_misc(s) ==
    LET s1 == colorcodepackages(s, <<attrtochar(s.coloredby)>>)
    IN  execmacro([s1 EXCEPT !.searchphrases = <<>>], T_startup)

\* Program::init
init(s) == init_misc(init_curses(loadpkgs(s)))

\* Program::Program, for a given database and macro table
Program(db, macros) ==
    [ db |-> db, macros |-> macros, gen |-> 0,
      packages |-> <<>>, filteredpackages |-> <<>>, opqueue |-> <<>>,
      attrlist |-> <<>>, sortedby |-> A_NAME, coloredby |-> A_INSTALLSTATE,
      searchphrases |-> <<>>,
      his |-> [o \in Ops |-> EmptyHistory],
      mode |-> MODE_STANDARD, op |-> OP_NONE, inputbuf |-> <<>>,
      listfocus |-> 0, queuefocus |-> 0, focused_pane |-> LIST_PANE,
      quit |-> FALSE, want_resize |-> FALSE, oob |-> FALSE, last |-> "new" ]

\* case 'C': while (!opqueue.empty()) queue_pane->removeselected();
RECURSIVE ClearQueue(_)
ClearQueue(s) == IF s.opqueue = <<>> THEN s ELSE ClearQueue(queue_removeselected(s))

\* case KEY_RIGHT: the mutant pushes without looking the entry up in the queue
key_right_nocheck(s) ==
    IF s.focused_pane # LIST_PANE THEN s
    ELSE IF Len(s.filteredpackages) = 0 THEN s
    ELSE LET p == s.filteredpackages[s.listfocus + 1]
         IN  [pane_move(queue_movetoend([s EXCEPT !.opqueue = Append(@, p)]), 1)
                 EXCEPT !.last = "right:pushed"]

key_right(s) ==
    IF s.focused_pane # LIST_PANE THEN s
    ELSE IF Len(s.filteredpackages) = 0 THEN s
    ELSE LET p == s.filteredpackages[s.listfocus + 1]
         IN  IF p \in Range(s.opqueue) THEN [s EXCEPT !.last = "right:queued"]
             ELSE [pane_move(queue_movetoend([s EXCEPT !.opqueue = Append(@, p)]), 1)
                     EXCEPT !.last = "right:pushed"]

\* case KEY_LEFT
key_left(s) ==
    IF s.focused_pane # QUEUE_PANE THEN s
    ELSE LET s1 == queue_removeselected(s)
         IN  [IF s1.opqueue = <<>> THEN setfocus(s1, LIST_PANE) ELSE s1
                 EXCEPT !.last = "left:removed"]

\* case 'r' (which falls through into case 'c')
key_reload(s) == [clearfilter(init(deinit(s))) EXCEPT !.last = "reload"]

\* mainloop, mode == MODE_STANDARD
standard(s, k) ==
    CASE k \in {"k", "KEY_UP"} -> pane_move(s, -1)
      [] k \in {"j", "KEY_DOWN"} -> pane_move(s, 1)
      [] k = "KEY_HOME" -> pane_moveabs(s, 0)
      [] k = "KEY_END" -> pane_movetoend(s)
      [] k = "KEY_PPAGE" -> pane_move(s, 0 - PageRows)
      [] k = "KEY_NPAGE" -> pane_move(s, PageRows)
      [] k = "KEY_TAB" ->
           setfocus(s, IF s.focused_pane = LIST_PANE THEN QUEUE_PANE ELSE LIST_PANE)
      [] k = "KEY_RIGHT" -> key_right(s)
      [] k = "KEY_LEFT" -> key_left(s)
      [] k = "C" -> [setfocus(ClearQueue(s), LIST_PANE) EXCEPT !.last = "clearqueue"]
      [] k = "h" -> [s EXCEPT !.mode = MODE_HELP]
      [] k = "q" -> [s EXCEPT !.quit = TRUE]
      [] IsDigit(k) -> execmacro(s, <<k>>)
      [] k = "r" -> key_reload(s)
      [] k = "c" -> [clearfilter(s) EXCEPT !.last = "clearfilter"]
      [] k \in {"n", "d"} ->
           [prepinputmode(s, OP_FILTER) EXCEPT !.inputbuf = <<k, ":">>, !.last = "prep"]
      [] k \in {"/", ".", "?", ";", "!", "@"} ->
           [prepinputmode(s, strtoopt(<<k>>)) EXCEPT !.last = "prep"]
      [] OTHER -> s

\* case KEY_UP of the input mode: the mutant steps the cursor the wrong way
input_up_forward(s) ==
    IF ~HisEmpty(gethis(s, s.op))
    THEN LET h == HisMoveForward(gethis(s, s.op))
         IN  [s EXCEPT !.his[s.op] = h, !.inputbuf = HisCurrent(h), !.last = "up"]
    ELSE s

input_up(s) ==
    IF ~HisEmpty(gethis(s, s.op))
    THEN LET h == HisMoveBack(gethis(s, s.op))
         IN  [s EXCEPT !.his[s.op] = h, !.inputbuf = HisCurrent(h), !.last = "up"]
    ELSE s

\* case KEY_DOWN of the input mode
input_down(s) ==
    IF ~HisEmpty(gethis(s, s.op))
    THEN LET h == HisMoveForward(gethis(s, s.op))
         IN  [s EXCEPT !.his[s.op] = h, !.inputbuf = HisCurrent(h), !.last = "down"]
    ELSE s

\* mainloop, mode == MODE_INPUT: the mutant commits the buffer on Escape
input_esccommit(s, k) ==
    CASE k = "KEY_ESC" -> [exitinputmode(s, s.op) EXCEPT !.last = "esc"]
      [] k = "KEY_RETURN" -> exitinputmode(s, s.op)
      [] k = "KEY_BACKSPACE" ->
           [s EXCEPT !.inputbuf = SubSeq(@, 1, Len(@) - 1)]
      [] k = "KEY_UP" -> input_up(s)
      [] k = "KEY_DOWN" -> input_down(s)
      [] OTHER -> [s EXCEPT !.inputbuf = Append(@, k)]

\* mainloop, mode == MODE_INPUT (the buffer's cursor stays at the end: the keys
\* that only move it are left out)
input(s, k) ==
    CASE k = "KEY_ESC" -> [exitinputmode(s, OP_NONE) EXCEPT !.last = "esc"]
      [] k = "KEY_RETURN" -> exitinputmode(s, s.op)
      [] k = "KEY_BACKSPACE" ->
           [s EXCEPT !.inputbuf = SubSeq(@, 1, Len(@) - 1)]
      [] k = "KEY_UP" -> input_up(s)
      [] k = "KEY_DOWN" -> input_down(s)
      [] OTHER -> [s EXCEPT !.inputbuf = Append(@, k)]

\* mainloop, from the test of ch to the end of the loop body
dispatch(s0, k) ==
    IF k \in {"ERR", "KEY_RESIZE"} THEN s0
    ELSE CASE s0.mode = MODE_STANDARD -> standard(s0, k)
           [] s0.mode = MODE_INPUT -> input(s0, k)
           [] OTHER -> [s0 EXCEPT !.mode = MODE_STANDARD]

\* one iteration of mainloop for the key k, with no signal arriving meanwhile
mainloop(s, k) == dispatch([s EXCEPT !.want_resize = FALSE, !.last = "key"], k)


(***************************************************************************)
(* Inputs: the databases, macro tables and texts the runs draw from.       *)
(***************************************************************************)
Pkg(n, d, i) == [name |-> n, desc |-> d, state |-> i]

\* bash/shell and zsh/shell
DbShell == << Pkg(<<"b","a","s","h">>, <<"s","h","e","l","l">>, <<"y">>),
              Pkg(<<"z","s","h">>, <<"s","h","e","l","l">>, <<"n">>) >>

\* three packages whose description order differs from their name order
DbMixed == << Pkg(<<"A","s","h">>, <<"z","b">>, <<"y">>),
              Pkg(<<"b">>, <<"a">>, <<"n">>),
              Pkg(<<"s","a">>, <<"S","h">>, <<"y">>) >>

T_n == <<"n",":">>
T_n_sh == <<"n",":","s","h">>
T_dneg_s_ == <<"d","!",":","s",".">>
T_dot_b == <<".","b">>
T_bad == <<"[">>
T_d == <<"d">>
T_xn == <<"x","n">>
T_a == <<"a">>
T_n_b == <<"n",":","b">>
T_z == <<"z">>
T_2 == <<"2">>
T_4 == <<"4">>

\* macro name -> command
MacroTable == (<<"1">> :> <<"/","n",":","s","h">>)
           @@ (<<"2">> :> <<".","d">>)
           @@ (<<"3">> :> <<"/","[">>)
           @@ (<<"4">> :> <<"@","2">>)

\* a table with a command for each of the six operations, and one command
\* ("7") that begins with no operation selector
MacroOps == (<<"1">> :> <<"/","n",":","b">>)
         @@ (<<"2">> :> <<".","d">>)
         @@ (<<"3">> :> <<"?","z">>)
         @@ (<<"4">> :> <<"@","2">>)
         @@ (<<"5">> :> <<";","d">>)
         @@ (<<"6">> :> <<"!","x">>)
         @@ (<<"7">> :> <<"x">>)

\* the table with a start-up macro that filters
MacroStart == (T_startup :> <<"/","n",":","s","h">>) @@ MacroTable

T_c_b == <<":","b">>
T_neg_b == <<"!",":","b">>
T_b == <<"b">>
T_nneg_x == <<"n","!",":","x">>
T_x == <<"x">>
T_9 == <<"9">>
T_1 == <<"1">>
T_1_9_2 == <<"1",",","9",",","2">>
T_2_1 == <<"2",","," ","1">>
T_7_1 == <<"7",",","1">>

NoTexts == [o \in Ops |-> {}]

(***************************************************************************)
(* Actions: one loop iteration per key.                                    *)
(***************************************************************************)
RECURSIVE SumOver(_, _)
SumOver(S, f) ==
    IF S = {} THEN 0 ELSE LET x == CHOOSE x \in S : TRUE IN f[x] + SumOver(S \ {x}, f)

\* the number of history entries recorded so far
Commits(s) == SumOver(Ops, [o \in Ops |-> Len(s.his[o].items)])
Bounded(s) == Commits(s) <= Commits(init(Program(s.db, s.macros))) + MaxCommits

Step(k) ==
    /\ ~st.quit
    /\ ~st.oob
    /\ \E n \in {mainloop(st, k)} : Bounded(n) /\ st' = n
    /\ ch' = k
    /\ UNCHANGED <<tty, calls>>

InStandard == st.mode = MODE_STANDARD
InInput == st.mode = MODE_INPUT

KeyMove == InStandard /\ \E k \in {"KEY_UP", "KEY_DOWN", "KEY_HOME", "KEY_END",
                                   "KEY_PPAGE", "KEY_NPAGE"} : Step(k)
KeyTab == InStandard /\ Step("KEY_TAB")
KeyRight == InStandard /\ Step("KEY_RIGHT")
KeyLeft == InStandard /\ Step("KEY_LEFT")
KeyClearQueue == InStandard /\ Step("C")
KeyHelp == InStandard /\ Step("h")
KeyQuit == InStandard /\ Step("q")
KeyMacro(D) == InStandard /\ \E k \in D : Step(k)
KeyReload == InStandard /\ Step("r")
KeyClearFilter == InStandard /\ Step("c")
KeyFilterBy(K) == InStandard /\ \E k \in K : Step(k)
KeyOp(K) == InStandard /\ \E k \in K : Step(k)
KeyEscape == InInput /\ Step("KEY_ESC")
\* Enter, on an empty buffer or on one of the texts T
KeyReturn(T) == InInput /\ st.inputbuf \in T[st.op] \cup {<<>>} /\ Step("KEY_RETURN")
KeyBackspace == InInput /\ st.inputbuf # <<>> /\ Step("KEY_BACKSPACE")
KeyHistoryUp == InInput /\ Step("KEY_UP")
KeyHistoryDown == InInput /\ Step("KEY_DOWN")
\* a character key, as far as the buffer stays a prefix of one of the texts T
KeyInsert(T) ==
    /\ InInput
    /\ \E t \in T[st.op] : \E n \in 1..Len(t) :
          /\ st.inputbuf = SubSeq(t, 1, n - 1)
          /\ Step(t[n])
KeyInHelp == st.mode = MODE_HELP /\ Step("x")

\* the terminal and the main loop's position: size is the terminal's size,
\* sig a SIGWINCH not yet delivered, pc and i the loop's position (i within
\* do_resize), w the size do_resize has read, panes the size the panes are
\* laid out for, unseen whether a notification has arrived that no read of
\* the size has started after
Terminal(n) ==
    [ size |-> n, sig |-> FALSE, pc |-> "getch", i |-> 1, w |-> n, panes |-> n,
      unseen |-> FALSE ]

InitWith(dbs, tables) ==
    /\ st \in {init(Program(db, m)) : db \in dbs, m \in tables}
    /\ ch = "ERR"
    /\ tty = Terminal(1)
    /\ calls = <<>>

(***************************************************************************)
(* Spec: the whole controller on small inputs.                             *)
(***************************************************************************)
SpecTexts == [NoTexts EXCEPT ![OP_FILTER] = {T_n, T_n_sh, T_dneg_s_, T_dot_b, T_bad},
                             ![OP_SORT] = {T_d}]

Init == InitWith({DbShell, DbMixed}, {MacroTable})

Next ==
    \/ KeyMacro({"1", "2", "3"})
    \/ KeyReload
    \/ KeyClearFilter
    \/ KeyFilterBy({"n"})
    \/ KeyOp({"/", "."})
    \/ KeyEscape
    \/ KeyReturn(SpecTexts)
    \/ KeyInsert(SpecTexts)

Spec == Init /\ [][Next]_vars


(***************************************************************************)
(* Properties of the view (Spec).                                          *)
(***************************************************************************)
View == st.filteredpackages
Catalog == st.packages
NoDuplicates(q) == \A i, j \in 1..Len(q) : i # j => q[i] # q[j]
IsCatalogEntry(p) == p.gen = st.gen /\ p.idx \in 1..Len(Catalog)

\* C1: every entry of View is an entry of the current Catalog, and no Catalog
\* entry occurs in View more than once.
C1_ViewWithinCatalog ==
    /\ \A i \in 1..Len(View) : IsCatalogEntry(View[i])
    /\ NoDuplicates(View)

\* a filter has narrowed the view of a reloaded catalog
C1_Witness ==
    /\ st.last \in {"filter:sub", "filter:re"}
    /\ st.gen = 2
    /\ Len(View) > 0
    /\ Len(View) < Len(Catalog)

AttrText(p, a) == getattr(Deref(st, p), a)

\* C2: View is in ascending lexicographic order of the text of the recorded
\* sort attribute (sortedby).
C2_ViewSortedBySortedby ==
    \A i \in 1..(Len(View) - 1) :
        ~StrLess(AttrText(View[i + 1], st.sortedby), AttrText(View[i], st.sortedby))

\* the step is an Enter in Input mode that commits a filter text
FilterCommit ==
    /\ ch' = "KEY_RETURN"
    /\ st.mode = MODE_INPUT
    /\ st.op = OP_FILTER
    /\ st.inputbuf # <<>>

\* the pattern of the filter text is not empty and, if it is not plain, compiles
FilterSucceeds(str) ==
    LET p == ParseFilter(str) IN
    /\ p.searchphrase # <<>>
    /\ IsSimple(p.searchphrase) \/ RegexCompiles(p.searchphrase)

\* some attribute of al contains the phrase (plain) or matches it (pattern)
PhraseOccurs(s, ptr, phrase, al) ==
    IF IsSimple(phrase)
    THEN \E i \in 1..Len(al) :
            Contains(ToLower(getattr(Deref(s, ptr), al[i])), ToLower(phrase))
    ELSE \E i \in 1..Len(al) : regex_search(getattr(Deref(s, ptr), al[i]), phrase)

\* C4: after a successful non-negated filter commit the new View is the
\* subsequence of the previous View whose entries have an active attribute
\* containing or matching the pattern.
C4_PositiveFilterKeepsMatches ==
    [][ (FilterCommit /\ FilterSucceeds(st.inputbuf)
            /\ ParseFilter(st.inputbuf).negate = <<>>)
        => LET phrase == ParseFilter(st.inputbuf).searchphrase
               Keep(ptr) == PhraseOccurs(st, ptr, phrase, st'.attrlist)
           IN  st'.filteredpackages = SelectSeq(st.filteredpackages, Keep) ]_vars

\* C5: after a successful negated filter commit View retains exactly the
\* previous entries none of whose active attributes matches the pattern.
C5_NegatedFilterDropsMatches ==
    [][ (FilterCommit /\ FilterSucceeds(st.inputbuf)
            /\ ParseFilter(st.inputbuf).negate # <<>>)
        => LET phrase == ParseFilter(st.inputbuf).searchphrase
               Keep(ptr) == ~PhraseOccurs(st, ptr, phrase, st'.attrlist)
           IN  st'.filteredpackages = SelectSeq(st.filteredpackages, Keep) ]_vars

BadPattern(str) ==
    LET p == ParseFilter(str) IN
    p.searchphrase # <<>> /\ ~IsSimple(p.searchphrase) /\ ~RegexCompiles(p.searchphrase)

\* the step is a digit key whose macro is a single filter command with text str
MacroFilterCommit(str) ==
    /\ st.mode = MODE_STANDARD
    /\ IsDigit(ch')
    /\ <<ch'>> \in DOMAIN st.macros
    /\ st.macros[<<ch'>>] = <<"/">> \o str

\* C7: a filter commit whose pattern fails to compile leaves View and the
\* filter description as they were, typed or reached through a macro.
C7_BadPatternLeavesView ==
    [][ ((FilterCommit /\ BadPattern(st.inputbuf))
           \/ \E str \in {T_bad} : MacroFilterCommit(str) /\ BadPattern(str))
        => /\ st'.filteredpackages = st.filteredpackages
           /\ st'.searchphrases = st.searchphrases ]_vars

\* a bad pattern reached a narrowed view through a macro
C7_Witness ==
    /\ st.last = "filter:badre"
    /\ ch = "3"
    /\ st.searchphrases # <<>>
    /\ Len(View) > 0
    /\ Len(View) < Len(Catalog)

(***************************************************************************)
(* SpecQueue: the queue keys, with a filter macro, clear-filter and reload *)
(* changing the view under them.                                           *)
(***************************************************************************)
NextQueue ==
    \/ KeyMove
    \/ KeyTab
    \/ KeyRight
    \/ KeyLeft
    \/ KeyClearQueue
    \/ KeyMacro({"1"})
    \/ KeyReload
    \/ KeyClearFilter

SpecQueue == Init /\ [][NextQueue]_vars

Queue == st.opqueue

\* the step is a Right-arrow on a focused View entry that is already queued
RightOnQueued ==
    /\ ch' = "KEY_RIGHT"
    /\ st.mode = MODE_STANDARD
    /\ st.focused_pane = LIST_PANE
    /\ Len(st.filteredpackages) > 0
    /\ st.filteredpackages[st.listfocus + 1] \in Range(st.opqueue)

\* C3: all Queue entries are distinct, and a Right-arrow on an entry that is
\* already queued leaves Queue as it was.
C3_QueueDistinct ==
    [][ /\ NoDuplicates(st'.opqueue)
        /\ RightOnQueued => st'.opqueue = st.opqueue ]_vars

\* a Right-arrow met an entry already in a queue of two
C3_Witness ==
    /\ st.last = "right:queued"
    /\ Len(Queue) >= 2

(***************************************************************************)
(* SpecSearch: search commits on views of three entries.                   *)
(***************************************************************************)
SearchTexts == [NoTexts EXCEPT ![OP_SEARCH] = {T_z, T_n_b}]

InitSearch == InitWith({DbMixed}, {MacroTable})

NextSearch ==
    \/ KeyMove
    \/ KeyMacro({"1"})
    \/ KeyClearFilter
    \/ KeyOp({"?"})
    \/ KeyEscape
    \/ KeyReturn(SearchTexts)
    \/ KeyInsert(SearchTexts)

SpecSearch == InitSearch /\ [][NextSearch]_vars

\* the step is an Enter in Input mode that commits a search text
SearchCommit ==
    /\ ch' = "KEY_RETURN"
    /\ st.mode = MODE_INPUT
    /\ st.op = OP_SEARCH
    /\ st.inputbuf # <<>>

\* positions (1-based) of the View entries an active attribute of which
\* contains the phrase, case-insensitively
Occurrences(s, phrase, al) ==
    {i \in 1..Len(s.filteredpackages) :
        \E k \in 1..Len(al) :
            Contains(ToLower(getattr(Deref(s, s.filteredpackages[i]), al[k])),
                     ToLower(phrase))}

SetMin(S) == CHOOSE x \in S : \A y \in S : x <= y

\* C9: a search commit with a non-empty phrase on a non-empty View moves the
\* focus to the first entry after the focused one that contains the phrase,
\* else (wrapping once) to the first such entry from the beginning.
C9_SearchFindsNextOccurrence ==
    [][ (SearchCommit /\ ParseSearch(st.inputbuf).searchphrase # <<>>
            /\ Len(st.filteredpackages) > 0)
        => LET occ == Occurrences(st, ParseSearch(st.inputbuf).searchphrase, st'.attrlist)
               after == {i \in occ : i > st.listfocus + 1}
           IN  IF after # {} THEN st'.listfocus + 1 = SetMin(after)
               ELSE occ # {} => st'.listfocus + 1 = SetMin(occ) ]_vars

(***************************************************************************)
(* SpecHis: browsing the histories of the search and macro operations.     *)
(***************************************************************************)
HisTexts == [NoTexts EXCEPT ![OP_SEARCH] = {T_a}, ![OP_MACRO] = {T_2, T_4}]

InitHis == InitWith({DbShell}, {MacroTable})

NextHis ==
    \/ KeyOp({"?", "@"})
    \/ KeyEscape
    \/ KeyReturn(HisTexts)
    \/ KeyBackspace
    \/ KeyHistoryUp
    \/ KeyHistoryDown
    \/ KeyInsert(HisTexts)

SpecHis == InitHis /\ [][NextHis]_vars

Last(q) == q[Len(q)]
PendingHis == st.his[st.op]

\* the step is an Enter in Input mode that commits the buffer
TypedCommit ==
    /\ ch' = "KEY_RETURN"
    /\ st.mode = MODE_INPUT
    /\ st.inputbuf # <<>>

\* Up right after entering Input mode shows the newest entry; Down from the
\* newest entry returns to past-the-end with an empty buffer; Up on the oldest
\* entry stays there
BrowseRoundTrip ==
    /\ (st.mode = MODE_INPUT /\ st.last = "prep" /\ ch' = "KEY_UP"
           /\ PendingHis.items # <<>>)
       => st'.inputbuf = Last(PendingHis.items)
    /\ (st.mode = MODE_INPUT /\ ch' = "KEY_DOWN" /\ PendingHis.items # <<>>
           /\ PendingHis.pos = Len(PendingHis.items))
       => /\ st'.inputbuf = <<>>
          /\ st'.his[st.op].pos = Len(PendingHis.items) + 1
    /\ (st.mode = MODE_INPUT /\ ch' = "KEY_UP" /\ PendingHis.items # <<>>
           /\ PendingHis.pos = 1)
       => /\ st'.inputbuf = PendingHis.items[1]
          /\ st'.his[st.op].pos = 1

\* the macro chain str reaches a part whose command is itself a Macro command
RunsNestedMacro(s, str) ==
    LET strs == SplitComma(str, <<>>)
        Cmd(i) == s.macros[Trim(strs[i])]
        Resolves(i) == /\ Trim(strs[i]) \in DOMAIN s.macros
                       /\ strtoopt(SubSeq(Cmd(i), 1, 1)) # OP_NONE
    IN  \E i \in 1..Len(strs) :
            /\ \A j \in 1..i : Resolves(j)
            /\ strtoopt(SubSeq(Cmd(i), 1, 1)) = OP_MACRO
            /\ Len(Cmd(i)) > 1

\* C10: a commit appends its text x to the history of its kind, where it is
\* the newest entry (unless the commit is a macro whose chain commits further
\* macro texts after it); entering Input mode for a kind and pressing Up shows
\* the newest entry of that kind; Down right afterwards returns to past-the-end
\* with an empty InputBuffer; repeated Up clamps at the oldest entry.
C10_HistoryRoundTrip ==
    [][ /\ TypedCommit =>
              SubSeq(st'.his[st.op].items, 1, Len(PendingHis.items) + 1)
                  = Append(PendingHis.items, st.inputbuf)
        /\ (TypedCommit /\ ~(st.op = OP_MACRO /\ RunsNestedMacro(st, st.inputbuf)))
              => Last(st'.his[st.op].items) = st.inputbuf
        /\ BrowseRoundTrip ]_vars

\* Up, right after entering Input mode, recalled the newer of two entries
C10_Witness ==
    /\ st.mode = MODE_INPUT
    /\ st.last = "up"
    /\ Len(PendingHis.items) >= 2
    /\ PendingHis.pos = Len(PendingHis.items)
    /\ st.inputbuf = Last(PendingHis.items)

(***************************************************************************)
(* SpecAttrs: Filter::setattrs and Filter::clearattrs on bounded strings,  *)
(* the string held in st.inputbuf.                                         *)
(***************************************************************************)
AttrChars == {"n", "d", "i", "x"}

RECURSIVE StringsUpTo(_)
StringsUpTo(n) ==
    IF n = 0 THEN {<<>>}
    ELSE LET shorter == StringsUpTo(n - 1)
         IN  shorter \cup {Append(t, c) : t \in shorter, c \in AttrChars}

InitAttrs ==
    /\ st \in {[Program(DbShell, MacroTable) EXCEPT !.inputbuf = t] : t \in StringsUpTo(MaxStrLen)}
    /\ ch = "ERR"
    /\ tty = Terminal(1)
    /\ calls = <<>>

CallSetAttrs ==
    /\ st' = [st EXCEPT !.attrlist = setattrs(st.inputbuf), !.last = "setattrs"]
    /\ UNCHANGED <<ch, tty, calls>>

CallClearAttrs ==
    /\ st.last = "setattrs"
    /\ st' = [st EXCEPT !.attrlist = clearattrs(@), !.last = "clearattrs"]
    /\ UNCHANGED <<ch, tty, calls>>

NextString ==
    /\ st.last = "clearattrs"
    /\ \E t \in StringsUpTo(MaxStrLen) : st' = [st EXCEPT !.inputbuf = t, !.last = "new"]
    /\ UNCHANGED <<ch, tty, calls>>

NextAttrs == CallSetAttrs \/ CallClearAttrs \/ NextString

SpecAttrs == InitAttrs /\ [][NextAttrs]_vars

\* C8: setattrs then clearattrs yields exactly <<name, description>>; setattrs
\* of a string without attribute characters (the empty string among them)
\* yields the empty selection; setattrs never yields a duplicate or A_NONE.
C8_SelectionReset ==
    /\ st.last = "setattrs" =>
          /\ NoDuplicates(st.attrlist)
          /\ A_NONE \notin Range(st.attrlist)
          /\ Range(st.attrlist) = {chartoattr(c) : c \in Range(st.inputbuf)} \ {A_NONE}
          /\ (\A i \in 1..Len(st.inputbuf) : chartoattr(st.inputbuf[i]) = A_NONE)
                => st.attrlist = <<>>
    /\ st.last = "clearattrs" => st.attrlist = <<A_NAME, A_DESC>>

\* clearattrs ran after setattrs of a string with a repeated and an invalid character
C8_Witness ==
    /\ st.last = "clearattrs"
    /\ st.inputbuf = <<"n", "x", "n">>
    /\ st.attrlist = <<A_NAME, A_DESC>>


(***************************************************************************)
(* SpecMacro: macros by digit key and by Macro-mode commit, on a table     *)
(* with a command for each operation.                                      *)
(***************************************************************************)
MacroTexts == [NoTexts EXCEPT ![OP_MACRO] = {T_1, T_4, T_1_9_2, T_2_1, T_7_1}]

InitMacro == InitWith({DbMixed}, {MacroOps})

NextMacro ==
    \/ KeyRight
    \/ KeyMacro({"1", "2", "3", "4", "5", "6", "7", "9"})
    \/ KeyOp({"@"})
    \/ KeyEscape
    \/ KeyReturn(MacroTexts)
    \/ KeyInsert(MacroTexts)

SpecMacro == InitMacro /\ [][NextMacro]_vars

\* the state after pressing the keys one after the other
RECURSIVE RunKeys(_, _)
RunKeys(s, keys) ==
    IF keys = <<>> THEN s ELSE RunKeys(mainloop(s, Head(keys)), Tail(keys))

\* the step dispatches a macro: a digit key in Standard mode, or Enter in Input
\* mode for the Macro operation
MacroDispatch ==
    \/ st.mode = MODE_STANDARD /\ IsDigit(ch')
    \/ st.mode = MODE_INPUT /\ st.op = OP_MACRO /\ ch' = "KEY_RETURN" /\ st.inputbuf # <<>>

\* the text handed to execmacro by the step
DispatchedText == IF st.mode = MODE_STANDARD THEN <<ch'>> ELSE st.inputbuf

\* the text names a table entry whose command begins with an operation selector
NamesCommand(s, m) ==
    /\ m \in DOMAIN s.macros
    /\ strtoopt(SubSeq(s.macros[m], 1, 1)) # OP_NONE

\* Standard mode before the dispatch: the Input mode of a Macro commit cancelled
BeforeDispatch == IF st.mode = MODE_INPUT THEN mainloop(st, "KEY_ESC") ELSE st

\* the state after typing the command c+arg (selector key, text, Enter)
TypedCommand(s, cmd) == RunKeys(s, cmd \o <<"KEY_RETURN">>)

SameViewState(a, b) ==
    /\ a.filteredpackages = b.filteredpackages
    /\ a.searchphrases = b.searchphrases
    /\ a.attrlist = b.attrlist
    /\ a.listfocus = b.listfocus
    /\ a.sortedby = b.sortedby
    /\ a.coloredby = b.coloredby
    /\ a.opqueue = b.opqueue

\* C11 as stated: dispatching macro m -> c+arg leaves View, description,
\* FilterSelection, focus, sort and colour attribute, Queue and the history of
\* operation c as typing c, arg, Enter from the same state does.
C11_MacroEqualsTyped ==
    [][ (MacroDispatch /\ NamesCommand(st, DispatchedText))
        => LET cmd == st.macros[DispatchedText]
               o == strtoopt(SubSeq(cmd, 1, 1))
           IN  \E typed \in {TypedCommand(BeforeDispatch, cmd)} :
                  /\ SameViewState(st', typed)
                  /\ st'.his[o].items = typed.his[o].items ]_vars

\* C11 amended: as C11, the history of operation c compared for the five
\* operations other than Macro; for c the Macro operation the Macro history
\* after the dispatch is that of the typed route with m recorded before arg.
C11_MacroEqualsTypedAmended ==
    [][ (MacroDispatch /\ NamesCommand(st, DispatchedText))
        => LET cmd == st.macros[DispatchedText]
               o == strtoopt(SubSeq(cmd, 1, 1))
           IN  \E typed \in {TypedCommand(BeforeDispatch, cmd)} :
                  /\ SameViewState(st', typed)
                  /\ o # OP_MACRO => st'.his[o].items = typed.his[o].items
                  /\ o = OP_MACRO =>
                        st'.his[o].items =
                            Append(st.his[o].items, DispatchedText)
                               \o SubSeq(typed.his[o].items, Len(st.his[o].items) + 1,
                                         Len(typed.his[o].items)) ]_vars

\* the filter macro ran by digit key with an entry queued
C11_Witness ==
    /\ ch = "1"
    /\ st.last = "filter:sub"
    /\ st.op = OP_NONE
    /\ st.opqueue # <<>>
    /\ st.his[OP_FILTER].items = << <<"n", ":", "b">> >>

\* index of the first part of the chain that is not in the table (0: none)
FirstUnresolved(s, strs) ==
    IF \E i \in 1..Len(strs) : Trim(strs[i]) \notin DOMAIN s.macros
    THEN SetMin({i \in 1..Len(strs) : Trim(strs[i]) \notin DOMAIN s.macros})
    ELSE 0

\* the commands applied one after the other, each as exitinputmode applies a
\* buffer; a command without operation selector ends the chain
RECURSIVE ApplyCommands(_, _, _)
ApplyCommands(s, cmds, i) ==
    IF i > Len(cmds) THEN s
    ELSE IF strtoopt(SubSeq(cmds[i], 1, 1)) = OP_NONE THEN s
    ELSE ApplyCommands(exitinputmode([s EXCEPT !.inputbuf = Drop(cmds[i], 1)],
                                     strtoopt(SubSeq(cmds[i], 1, 1))),
                       cmds, i + 1)

\* C12: in a chain whose first part missing from the table is pk, the commands
\* of p1..p(k-1) are applied in order and kept, and nothing of pk..pn is
\* applied: View, description, FilterSelection, sort attribute and the
\* histories are as after recording the chain and applying p1..p(k-1) alone.
C12_ChainAbortsAtUnresolved ==
    [][ (MacroDispatch /\ FirstUnresolved(st, SplitComma(DispatchedText, <<>>)) # 0)
        => LET strs == SplitComma(DispatchedText, <<>>)
               k == FirstUnresolved(st, strs)
               cmds == [i \in 1..(k - 1) |-> st.macros[Trim(strs[i])]]
               recorded == [st EXCEPT !.mode = MODE_STANDARD, !.op = OP_NONE,
                                      !.his[OP_MACRO].items = Append(@, DispatchedText)]
           IN  \E kept \in {ApplyCommands(recorded, cmds, 1)} :
                  /\ st'.filteredpackages = kept.filteredpackages
                  /\ st'.searchphrases = kept.searchphrases
                  /\ st'.attrlist = kept.attrlist
                  /\ st'.sortedby = kept.sortedby
                  /\ \A o \in Ops : st'.his[o].items = kept.his[o].items ]_vars

\* the chain 1,9,2 ran: the filter of part 1 is kept, the sort of part 2 never ran
C12_Witness ==
    /\ st.last = "macro:unresolved"
    /\ Last(st.his[OP_MACRO].items) = T_1_9_2
    /\ st.searchphrases = <<"n", ":", "b">>
    /\ st.sortedby = A_NAME
    /\ st.his[OP_SORT].items = <<>>


(***************************************************************************)
(* SpecInput: the input mode, entered for each of the six operations and   *)
(* left by Escape or Enter, the queue and the help screen.                 *)
(***************************************************************************)
InputTexts == [NoTexts EXCEPT ![OP_FILTER] = {T_n_sh}, ![OP_SORT] = {T_d},
                              ![OP_MACRO] = {T_2}]

InitInput == InitWith({DbShell}, {MacroTable})

NextInput ==
    \/ KeyOp({"/", ".", "?", ";", "!", "@"})
    \/ KeyFilterBy({"n", "d"})
    \/ KeyEscape
    \/ KeyReturn(InputTexts)
    \/ KeyInsert(InputTexts)
    \/ KeyHelp
    \/ KeyInHelp
    \/ KeyRight

SpecInput == InitInput /\ [][NextInput]_vars

HistoryItems(s) == [o \in Ops |-> s.his[o].items]

\* the key of this step cancels the input: Escape, or Enter on an empty buffer
Cancels ==
    /\ InInput
    /\ \/ ch' = "KEY_ESC"
       \/ ch' = "KEY_RETURN" /\ st.inputbuf = <<>>

\* C13: Escape with any buffer content, and Enter with an empty buffer, lead
\* from the input mode to the standard mode with no pending operation, and
\* leave the view, the queue, the filter description, the filter selection,
\* the sort attribute, the colour attribute and the entries of all six
\* histories as they were
C13_CancelLeavesState ==
    [][ Cancels =>
          /\ st'.mode = MODE_STANDARD
          /\ st'.op = OP_NONE
          /\ st'.filteredpackages = st.filteredpackages
          /\ st'.opqueue = st.opqueue
          /\ st'.searchphrases = st.searchphrases
          /\ st'.attrlist = st.attrlist
          /\ st'.sortedby = st.sortedby
          /\ st'.coloredby = st.coloredby
          /\ HistoryItems(st') = HistoryItems(st) ]_vars

\* Escape has cancelled a filter text that Enter would have applied, with a
\* package queued and a filter in force
C13_Witness ==
    /\ ch = "KEY_ESC"
    /\ st.last = "esc"
    /\ st.inputbuf = T_n_sh
    /\ st.opqueue # <<>>
    /\ st.searchphrases # <<>>

\* Mode = Input exactly when an operation is pending
ModeIffOp(s) == (s.mode = MODE_INPUT) <=> (s.op # OP_NONE)

\* C14: at every boundary between two loop iterations the mode is Input
\* exactly when an operation is pending; the program starts in the standard
\* mode with none pending; Escape and Enter (macro chains included) leave the
\* input mode for the standard mode with none pending; any key on the help
\* screen leads back to the standard mode
C14_ModeIffPending ==
    /\ st.mode = MODE_STANDARD /\ st.op = OP_NONE
    /\ [][ /\ ModeIffOp(st')
           /\ (InInput /\ ch' \in {"KEY_ESC", "KEY_RETURN"}) =>
                 (st'.mode = MODE_STANDARD /\ st'.op = OP_NONE)
           /\ st.mode = MODE_HELP => st'.mode = MODE_STANDARD ]_vars

\* Enter has run a typed macro chain out of the input mode, whose command
\* went through exitinputmode a second time
C14_Witness ==
    /\ st.last = "sort:done"
    /\ ch = "KEY_RETURN"
    /\ st.inputbuf = T_d
    /\ Len(st.his[OP_MACRO].items) >= 2
    /\ st.mode = MODE_STANDARD

(***************************************************************************)
(* SpecReload: reload against a fresh start, with and without a start-up   *)
(* macro in the table.                                                     *)
(***************************************************************************)
ReloadTexts == [NoTexts EXCEPT ![OP_FILTER] = {T_n_sh}, ![OP_SORT] = {T_d}]

InitReload == InitWith({DbShell, DbMixed}, {MacroTable, MacroStart})

NextReload ==
    \/ KeyReload
    \/ KeyRight
    \/ KeyFilterBy({"n"})
    \/ KeyOp({"."})
    \/ KeyEscape
    \/ KeyReturn(ReloadTexts)
    \/ KeyInsert(ReloadTexts)

SpecReload == InitReload /\ [][NextReload]_vars

\* the catalog entries a sequence of package pointers stands for
Entries(s, q) == [i \in 1..Len(q) |-> Deref(s, q[i])]

\* the program right after a fresh start on the catalog and macro table of s
FreshStart(s) == init(Program(s.db, s.macros))

\* C15: after a reload the view, the filter description and the queue are
\* those of a fresh start on the same catalog and macro table, a configured
\* "startup" macro included
C15_ReloadEqualsFreshStart ==
    [][ (InStandard /\ ch' = "r") =>
          /\ Entries(st', st'.filteredpackages) =
                Entries(FreshStart(st), FreshStart(st).filteredpackages)
          /\ st'.searchphrases = FreshStart(st).searchphrases
          /\ Entries(st', st'.opqueue) = <<>> ]_vars

(***************************************************************************)
(* SpecResize: the main loop statement by statement, against the SIGWINCH  *)
(* handler, which can run between any two statements.                      *)
(***************************************************************************)
Sizes == 0..MaxSize

\* the statements of Program::do_resize that matter here, in their order: the
\* mutant reads the size before it clears the flag
do_resize_late == <<"ioctl", "clear", "reposition">>

do_resize == <<"clear", "ioctl", "reposition">>

InitResize ==
    /\ st = init(Program(DbShell, MacroTable))
    /\ ch = "ERR"
    /\ tty \in {Terminal(n) : n \in Sizes \ {0}}
    /\ calls = <<>>

\* the terminal changes its size and the kernel raises SIGWINCH
TermResize ==
    /\ \E n \in Sizes \ {tty.size} : tty' = [tty EXCEPT !.size = n, !.sig = TRUE]
    /\ UNCHANGED <<st, ch, calls>>

\* request_resize, the signal handler
request_resize ==
    /\ tty.sig
    /\ st' = [st EXCEPT !.want_resize = TRUE]
    /\ tty' = [tty EXCEPT !.sig = FALSE, !.unseen = TRUE]
    /\ UNCHANGED <<ch, calls>>

\* ch = getch(): a key, or ERR when none arrives within the timeout
LoopGetch ==
    /\ tty.pc = "getch"
    /\ ~st.quit
    /\ ch' \in {"ERR", "KEY_RESIZE", "KEY_TAB", "h", "q"}
    /\ tty' = [tty EXCEPT !.pc = "test"]
    /\ UNCHANGED <<st, calls>>

\* if (want_resize)
LoopTest ==
    /\ tty.pc = "test"
    /\ tty' = [tty EXCEPT !.pc = IF st.want_resize THEN "do_resize" ELSE "dispatch",
                          !.i = 1]
    /\ UNCHANGED <<st, ch, calls>>

\* the next statement of do_resize; ensureminwsize throws on a size below the
\* minimum, which ends the program
DoResizeStep ==
    /\ tty.pc = "do_resize"
    /\ LET next == IF tty.i = Len(do_resize) THEN "dispatch" ELSE "do_resize" IN
       CASE do_resize[tty.i] = "clear" ->
              /\ st' = [st EXCEPT !.want_resize = FALSE]
              /\ tty' = [tty EXCEPT !.i = @ + 1, !.pc = next]
         [] do_resize[tty.i] = "ioctl" ->
              /\ tty' = [tty EXCEPT !.w = tty.size, !.unseen = FALSE, !.i = @ + 1,
                                    !.pc = IF tty.size = 0 THEN "thrown" ELSE next]
              /\ UNCHANGED st
         [] OTHER ->
              /\ tty' = [tty EXCEPT !.panes = tty.w, !.i = @ + 1, !.pc = next]
              /\ UNCHANGED st
    /\ UNCHANGED <<ch, calls>>

\* the rest of the loop body
LoopDispatch ==
    /\ tty.pc = "dispatch"
    /\ st' = dispatch([st EXCEPT !.last = "key"], ch)
    /\ tty' = [tty EXCEPT !.pc = "getch"]
    /\ UNCHANGED <<ch, calls>>

LoopStep == LoopGetch \/ LoopTest \/ DoResizeStep \/ LoopDispatch

NextResize == TermResize \/ request_resize \/ LoopStep

SpecResize == InitResize /\ [][NextResize]_vars

\* the main thread is scheduled again and again, and getch returns after its
\* timeout when no key is pressed
SpecResizeFair == SpecResize /\ WF_vars(LoopStep)

\* the loop has stopped iterating: quit, or the exception of ensureminwsize
LoopEnded == st.quit \/ tty.pc = "thrown"

\* C16: the flag is set only by the signal handler and cleared only by the
\* main loop's do_resize; a notification no read of the size has started after
\* still has the flag up, or do_resize has cleared it and is about to read;
\* and every notification is eventually followed by such a read, as long as
\* the loop keeps iterating
C16_NoResizeLost ==
    /\ [][ /\ (~st.want_resize /\ st'.want_resize) => (tty.sig /\ ~tty'.sig)
           /\ (st.want_resize /\ ~st'.want_resize) =>
                 (tty.pc = "do_resize" /\ tty'.i = tty.i + 1) ]_vars
    /\ [](tty.unseen => (st.want_resize \/ tty.pc = "do_resize"))
    /\ (tty.unseen ~> (~tty.unseen \/ LoopEnded))

\* a notification arrived while do_resize was between clearing the flag and
\* reading the size; that read has taken place and the flag is still up
C16_Witness ==
    /\ st.want_resize
    /\ ~tty.unseen
    /\ tty.pc = "do_resize"
    /\ tty.i = 3
    /\ tty.w = tty.size
    /\ tty.w # tty.panes

(***************************************************************************)
(* SpecFilter: filter texts with and without field letters and with an     *)
(* empty pattern, on a view whose focus moves.                             *)
(***************************************************************************)
FilterTexts == [NoTexts EXCEPT ![OP_FILTER] = {T_n, T_n_b, T_b, T_c_b, T_neg_b, T_dot_b}]

InitFilter == InitWith({DbMixed}, {MacroTable})

NextFilter ==
    \/ KeyMove
    \/ KeyFilterBy({"n"})
    \/ KeyOp({"/"})
    \/ KeyEscape
    \/ KeyReturn(FilterTexts)
    \/ KeyInsert(FilterTexts)

SpecFilter == InitFilter /\ [][NextFilter]_vars

\* the selections an earlier filter can have left behind
Selections == {<<>>, <<A_NAME>>, <<A_DESC>>, <<A_NAME, A_DESC>>}

\* the filter text has no field letters before its pattern
NoFieldLetters(str) == ParseFilter(str).fieldlist = <<>>

\* C17 as stated: a filter commit whose text has no field letters leaves the
\* FilterSelection as the earlier filter left it
C17_BareFilterKeepsSelection ==
    [][ (FilterCommit /\ NoFieldLetters(st.inputbuf)) => st'.attrlist = st.attrlist ]_vars

\* C17 amended: a filter commit whose text has no field letters sets the
\* FilterSelection to the default <<name, description>>, and its View is the
\* same whatever selection the earlier filter had left
C17_BareFilterResetsSelection ==
    [][ (FilterCommit /\ NoFieldLetters(st.inputbuf)) =>
          /\ st'.attrlist = <<A_NAME, A_DESC>>
          /\ \A al \in Selections :
                filterpackages([st EXCEPT !.attrlist = al], st.inputbuf).filteredpackages
                  = st'.filteredpackages ]_vars

\* the bare pattern b has been applied after n:b had narrowed the selection
\* to the name
C17_Witness ==
    /\ ch = "KEY_RETURN"
    /\ st.last = "filter:sub"
    /\ st.inputbuf = T_b
    /\ st.searchphrases = T_n_b \o <<",", " ">> \o T_b
    /\ st.attrlist = <<A_NAME, A_DESC>>

\* the step commits a filter text whose pattern part is empty
EmptyPatternCommit == FilterCommit /\ ParseFilter(st.inputbuf).searchphrase = <<>>

\* C18 as stated: a filter commit with an empty pattern part appends to the
\* history and leaves View, description, FilterSelection and View focus alone
C18_EmptyPatternNoOp ==
    [][ EmptyPatternCommit =>
          /\ st'.his[OP_FILTER].items = Append(st.his[OP_FILTER].items, st.inputbuf)
          /\ st'.filteredpackages = st.filteredpackages
          /\ st'.searchphrases = st.searchphrases
          /\ st'.attrlist = st.attrlist
          /\ st'.listfocus = st.listfocus ]_vars

\* C18 amended: a filter commit with an empty pattern part appends to the
\* history and leaves View and description alone; it sets the FilterSelection
\* to the default <<name, description>> and the View focus to index 0
C18_EmptyPatternResets ==
    [][ EmptyPatternCommit =>
          /\ st'.his[OP_FILTER].items = Append(st.his[OP_FILTER].items, st.inputbuf)
          /\ st'.filteredpackages = st.filteredpackages
          /\ st'.searchphrases = st.searchphrases
          /\ st'.attrlist = <<A_NAME, A_DESC>>
          /\ st'.listfocus = 0 ]_vars

\* the pre-seeded n: has been committed unchanged on a view that n:b had
\* narrowed
C18_Witness ==
    /\ ch = "KEY_RETURN"
    /\ st.last = "filter:empty"
    /\ st.inputbuf = T_n
    /\ st.searchphrases = T_n_b
    /\ st.his[OP_FILTER].items = <<T_n_b, T_n>>
    /\ Len(st.filteredpackages) > 1

(***************************************************************************)
(* SpecCommit: commits of all six kinds with texts on which the operation  *)
(* has no effect, macros and reload.                                       *)
(***************************************************************************)
CommitTexts == [o \in Ops |->
    CASE o = OP_FILTER -> {T_bad, T_n}
      [] o = OP_SEARCH -> {T_n}
      [] o = OP_MACRO -> {T_9, T_4}
      [] OTHER -> {T_x}]

InitCommit == InitWith({DbShell}, {MacroTable})

NextCommit ==
    \/ KeyOp({"/", ".", "?", ";", "!", "@"})
    \/ KeyFilterBy({"n"})
    \/ KeyMacro({"2", "9"})
    \/ KeyReload
    \/ KeyEscape
    \/ KeyReturn(CommitTexts)
    \/ KeyInsert(CommitTexts)

SpecCommit == InitCommit /\ [][NextCommit]_vars

\* the history h2 holds the entries of h1, in their order, before any others
Extends(h1, h2) ==
    /\ Len(h2.items) >= Len(h1.items)
    /\ SubSeq(h2.items, 1, Len(h1.items)) = h1.items

\* C19: Enter on a non-empty buffer t appends t to the history of the pending
\* kind, whether or not the operation then has an effect, and t is the newest
\* entry of that history (unless the commit is a macro whose chain commits
\* further macro texts after it); no step, reload included, removes or
\* reorders the entries a history holds
C19_CommitAlwaysRecorded ==
    [][ /\ TypedCommit =>
              Extends([items |-> Append(PendingHis.items, st.inputbuf)], st'.his[st.op])
        /\ (TypedCommit /\ ~(st.op = OP_MACRO /\ RunsNestedMacro(st, st.inputbuf)))
              => st'.his[st.op].items = Append(PendingHis.items, st.inputbuf)
        /\ \A o \in Ops : Extends(st.his[o], st'.his[o]) ]_vars

\* after a reload, a sort text with no attribute character has been committed
\* and recorded, with the sort attribute as it was
C19_Witness ==
    /\ ch = "KEY_RETURN"
    /\ st.last = "sort:none"
    /\ st.his[OP_SORT].items = <<T_x>>
    /\ st.his[OP_MACRO].items = <<T_startup, T_startup>>
    /\ st.sortedby = A_NAME

(***************************************************************************)
(* Clear filter, checked under Spec.                                       *)
(***************************************************************************)
\* q is in ascending order of the text of attribute a
SortedBy(s, q, a) ==
    \A i \in 1..(Len(q) - 1) :
        ~StrLess(getattr(Deref(s, q[i + 1]), a), getattr(Deref(s, q[i]), a))

\* what clear-filter is to leave alone, and what it is to reset
ClearFilterFrame ==
    /\ Range(st'.filteredpackages) = Range(PackagePtrs(st))
    /\ Len(st'.filteredpackages) = Len(st.packages)
    /\ st'.searchphrases = <<>>
    /\ st'.listfocus = 0
    /\ st'.opqueue = st.opqueue
    /\ st'.sortedby = st.sortedby
    /\ st'.coloredby = st.coloredby
    /\ st'.his = st.his

\* C20: clear-filter sets View to all Catalog entries in the order of the
\* sort attribute, the description to empty and the View focus to 0, and
\* leaves Queue, sort attribute, colour attribute and histories as they were
C20_ClearFilterResetsView ==
    [][ (InStandard /\ ch' = "c") =>
          /\ ClearFilterFrame
          /\ SortedBy(st', st'.filteredpackages, st'.sortedby) ]_vars

(***************************************************************************)
(* SpecFocus: the input focus between the list pane and the queue pane,    *)
(* with the commands that empty the queue or rebuild the panes.            *)
(***************************************************************************)
FocusTexts == [NoTexts EXCEPT ![OP_EXEC] = {T_x}]

InitFocus == InitWith({DbShell}, {MacroTable})

NextFocus ==
    \/ KeyMove
    \/ KeyTab
    \/ KeyRight
    \/ KeyLeft
    \/ KeyClearQueue
    \/ KeyReload
    \/ KeyOp({"!"})
    \/ KeyEscape
    \/ KeyReturn(FocusTexts)
    \/ KeyInsert(FocusTexts)

SpecFocus == InitFocus /\ [][NextFocus]_vars

\* input focus on the queue pane implies a non-empty queue
QueueFocusNonEmpty(s) == s.focused_pane = QUEUE_PANE => s.opqueue # <<>>

\* C21: between keystrokes, input focus on Queue implies a non-empty Queue;
\* Tab onto an empty Queue keeps the focus on View, and a Left-arrow that
\* removes the last entry, clear-queue, an Exec commit and reload all leave
\* the focus on View
C21_QueueFocusNonEmpty ==
    /\ QueueFocusNonEmpty(st)
    /\ [][ /\ QueueFocusNonEmpty(st')
           /\ (InStandard /\ ch' = "KEY_TAB" /\ st.opqueue = <<>>)
                 => st'.focused_pane = LIST_PANE
           /\ (InStandard /\ ch' = "KEY_LEFT" /\ st.focused_pane = QUEUE_PANE
                   /\ Len(st.opqueue) = 1)
                 => (st'.opqueue = <<>> /\ st'.focused_pane = LIST_PANE)
           /\ (InStandard /\ ch' \in {"C", "r"})
                 => (st'.opqueue = <<>> /\ st'.focused_pane = LIST_PANE)
           /\ (InInput /\ st.op = OP_EXEC /\ st.inputbuf # <<>> /\ ch' = "KEY_RETURN")
                 => st'.focused_pane = LIST_PANE ]_vars

\* a Left-arrow on the focused queue has removed its last entry
C21_Witness ==
    /\ ch = "KEY_LEFT"
    /\ st.last = "left:removed"
    /\ st.opqueue = <<>>
    /\ st.focused_pane = LIST_PANE

(***************************************************************************)
(* Search commits as a frame, checked under SpecScan.                      *)
(***************************************************************************)
\* no View entry has an active attribute that contains the phrase
TotalFailure ==
    Occurrences(st, ParseSearch(st.inputbuf).searchphrase, st'.attrlist) = {}

\* C22: a search commit leaves View, Queue and the filter description as
\* they were, and when no View entry contains the phrase it leaves the View
\* focus where it was
C22_SearchLeavesViewAndFocus ==
    [][ SearchCommit =>
          /\ st'.filteredpackages = st.filteredpackages
          /\ st'.opqueue = st.opqueue
          /\ st'.searchphrases = st.searchphrases
          /\ (ParseSearch(st.inputbuf).searchphrase # <<>> /\ TotalFailure)
                => st'.listfocus = st.listfocus ]_vars

(***************************************************************************)
(* SpecScan: search commits on views that a filter may have emptied.       *)
(***************************************************************************)
\* z occurs in one description of DbMixed, x in no name or description; the
\* negated filter n!:x removes every entry whose name does not contain x
ScanTexts == [NoTexts EXCEPT ![OP_SEARCH] = {T_z, T_x}, ![OP_FILTER] = {T_nneg_x}]

InitScan == InitWith({DbShell, DbMixed}, {MacroTable})

NextScan ==
    \/ KeyMove
    \/ KeyMacro({"1"})
    \/ KeyClearFilter
    \/ KeyOp({"?", "/"})
    \/ KeyEscape
    \/ KeyReturn(ScanTexts)
    \/ KeyInsert(ScanTexts)

SpecScan == InitScan /\ [][NextScan]_vars

\* C25: whenever the search handler runs with a non-empty phrase, the scan
\* starts (focused index + 1) at most at the length of View, an empty View
\* included
C25_ScanStartsWithinView ==
    [][ (SearchCommit /\ ParseSearch(st.inputbuf).searchphrase # <<>>)
          => st.listfocus + 1 <= Len(st.filteredpackages) ]_vars

(***************************************************************************)
(* Sort commits, checked under Spec.                                       *)
(***************************************************************************)
\* the step is an Enter in Input mode that commits a sort text
SortCommit ==
    /\ ch' = "KEY_RETURN"
    /\ st.mode = MODE_INPUT
    /\ st.op = OP_SORT
    /\ st.inputbuf # <<>>

\* the positions of str whose character maps to an attribute
ValidAt(str) == {i \in 1..Len(str) : chartoattr(str[i]) # A_NONE}

\* C23: a sort commit takes the first character of its text that maps to an
\* attribute, records that attribute as the sort attribute and puts View in
\* ascending order of that attribute's text, with the same entries; with no
\* such character the sort attribute and View stay as they were
C23_SortByFirstValidChar ==
    [][ SortCommit =>
          IF ValidAt(st.inputbuf) = {}
          THEN st'.sortedby = st.sortedby /\ st'.filteredpackages = st.filteredpackages
          ELSE LET i == CHOOSE i \in ValidAt(st.inputbuf) :
                            \A j \in ValidAt(st.inputbuf) : i <= j
                   a == chartoattr(st.inputbuf[i])
               IN  /\ st'.sortedby = a
                   /\ Range(st'.filteredpackages) = Range(st.filteredpackages)
                   /\ Len(st'.filteredpackages) = Len(st.filteredpackages)
                   /\ SortedBy(st', st'.filteredpackages, a) ]_vars

(***************************************************************************)
(* SpecCycle: execmacro call by call.  calls is the stack of its running   *)
(* activations (empty while the main loop waits for a key); an activation  *)
(* holds its text, the parts of the text, the index of the next part and   *)
(* the program state it was called in.                                     *)
(***************************************************************************)
\* 1 invokes itself; 2 colours by description
MacroSelf == (<<"1">> :> <<"@","1">>) @@ (<<"2">> :> <<";","d">>)

\* 1 invokes 2, which runs 3 (a shell command) and then invokes 1
MacroLoop == (<<"1">> :> <<"@","2">>)
          @@ (<<"2">> :> <<"@","3",","," ","1">>)
          @@ (<<"3">> :> <<"!","x">>)

\* no macro reaches itself: 1 invokes 2 and then 3; 3 invokes 2 and then 7,
\* which is not in the table
MacroNest == (<<"1">> :> <<"@","2",","," ","3">>)
          @@ (<<"2">> :> <<";","d">>)
          @@ (<<"3">> :> <<"@","2",",","7">>)
          @@ (<<"4">> :> <<"!","x">>)

\* Program::execmacro has no test of whether its text is already being run:
\* the mutant refuses a text that is on the stack
execmacro_guarded(cs, str) == \A k \in 1..Len(cs) : cs[k].text # str

execmacro_enters(cs, str) == TRUE

Activation(s, str) == [text |-> str, strs |-> SplitComma(str, <<>>), i |-> 1, from |-> s]

InitCycle == InitWith({DbMixed}, {MacroNest, MacroSelf, MacroLoop})

\* a digit key: the call of execmacro up to the start of its loop
MacroKey ==
    /\ calls = <<>>
    /\ InStandard
    /\ ~st.quit
    /\ \E k \in {"1", "2", "3", "4", "9"} :
          /\ ch' = k
          /\ \E s0 \in {[st EXCEPT !.want_resize = FALSE, !.last = "key"]} :
                /\ Bounded(AddHis(s0, OP_MACRO, <<k>>))
                /\ st' = [AddHis(s0, OP_MACRO, <<k>>) EXCEPT !.last = "macro"]
                /\ calls' = <<Activation(s0, <<k>>)>>
    /\ UNCHANGED tty

\* the call exitinputmode(op) of a loop iteration: Enter(s1, cs) for the Macro
\* operation on a non-empty buffer, which calls execmacro again
Dispatch(s1, o, cs) ==
    LET Enter(s2, str) ==
            IF execmacro_enters(cs, str)
            THEN /\ Len(cs) < MaxDepth
                 /\ st' = [AddHis(s2, OP_MACRO, str) EXCEPT !.last = "macro"]
                 /\ calls' = Append(cs, Activation(s2, str))
            ELSE st' = s2 /\ calls' = cs
    IN  IF o = OP_MACRO /\ Len(s1.inputbuf) > 0
        THEN Enter([s1 EXCEPT !.mode = MODE_STANDARD, !.op = OP_NONE], s1.inputbuf)
        ELSE st' = exitinputmode(s1, o) /\ calls' = cs

\* one iteration of the loop of the innermost activation f, or its return
Iterate(f, rest) ==
    IF f.i > Len(f.strs) THEN st' = st /\ calls' = rest
    ELSE IF Trim(f.strs[f.i]) \notin DOMAIN st.macros
    THEN st' = [st EXCEPT !.last = "macro:unresolved"] /\ calls' = rest
    ELSE IF strtoopt(SubSeq(st.macros[Trim(f.strs[f.i])], 1, 1)) = OP_NONE
    THEN st' = [st EXCEPT !.last = "macro:noop"] /\ calls' = rest
    ELSE Dispatch([st EXCEPT !.inputbuf = Drop(st.macros[Trim(f.strs[f.i])], 1)],
                  strtoopt(SubSeq(st.macros[Trim(f.strs[f.i])], 1, 1)),
                  Append(rest, [f EXCEPT !.i = @ + 1]))

MacroStep ==
    /\ calls # <<>>
    /\ Iterate(calls[Len(calls)], SubSeq(calls, 1, Len(calls) - 1))
    /\ UNCHANGED <<ch, tty>>

NextCycle == MacroKey \/ MacroStep \/ (calls = <<>> /\ KeyMove)

SpecCycle == InitCycle /\ [][NextCycle]_vars

\* the program keeps running while execmacro is active
SpecCycleFair == SpecCycle /\ WF_vars(MacroStep)

\* the parts of the chain str that execmacro gets to when every part before
\* returns: those up to the first that is not in the table or whose command
\* starts with no operation selector
PartsRun(tbl, str) ==
    LET strs == SplitComma(str, <<>>)
        Resolves(j) == /\ Trim(strs[j]) \in DOMAIN tbl
                       /\ strtoopt(SubSeq(tbl[Trim(strs[j])], 1, 1)) # OP_NONE
    IN  {Trim(strs[i]) : i \in {i \in 1..Len(strs) : \A j \in 1..i : Resolves(j)}}

\* the macros the command of macro m invokes through the Macro operation
Callees(tbl, m) ==
    IF strtoopt(SubSeq(tbl[m], 1, 1)) = OP_MACRO THEN PartsRun(tbl, Drop(tbl[m], 1)) ELSE {}

RECURSIVE Closure(_, _)
Closure(tbl, S) ==
    LET N == S \cup UNION {Callees(tbl, m) : m \in S}
    IN  IF N = S THEN S ELSE Closure(tbl, N)

\* the chain str reaches a macro that invokes itself, directly or through a
\* cycle
Cyclic(tbl, str) ==
    \E m \in Closure(tbl, PartsRun(tbl, str)) : m \in Closure(tbl, Callees(tbl, m))

\* C24: the dispatch of a macro whose Macro-operation references reach no
\* cycle returns, with the result of execmacro; the dispatch of a macro that
\* invokes itself, directly or through a cycle, never returns to the main loop
C24_MacroRecursion ==
    /\ [][ (calls # <<>> /\ Cyclic(st.macros, calls[1].text)) => calls' # <<>> ]_vars
    /\ [][ (Len(calls) = 1 /\ calls' = <<>> /\ ~Cyclic(st.macros, calls[1].text))
             => st' = execmacro(calls[1].from, calls[1].text) ]_vars
    /\ ((calls # <<>> /\ ~Cyclic(st.macros, calls[1].text)) ~> (calls = <<>>))

\* the recursion of a macro on a cycle has reached the depth the runs follow,
\* recording its text at every level
C24_Witness ==
    /\ Len(calls) = MaxDepth
    /\ Cyclic(st.macros, calls[1].text)
    /\ Len(st.his[OP_MACRO].items) > MaxDepth
=============================================================================
